---- MODULE Spec2Model ----
(***************************************************************************)
(* PointGroup (torch_points3d/models/panoptic/pointgroup.py): the forward  *)
(* pass of the panoptic model (gated clustering, cluster batching and      *)
(* scoring) and its multi-task loss (_compute_loss, _offset_loss).         *)
(*                                                                         *)
(* Numbers.  The code computes in floating point; the model computes in    *)
(* exact rationals [n, d] (d > 0, lowest terms).  The epsilon guards of    *)
(* _offset_loss are kept where they decide the result (a zero denominator) *)
(* and dropped where they only perturb it (x / (c + 1e-6) is x / c for a   *)
(* count c > 0, v / (|v| + 1e-8) is v / |v| for |v| > 0).                  *)
(*                                                                         *)
(* Optional values.  Python's None is the empty sequence <<>> and a        *)
(* present value v is <<v>>, so that an absent list (None) and an empty    *)
(* list (<<<<>>>>) stay different values.                                  *)
(*                                                                         *)
(* External calls.  The networks (Backbone, Semantic, Offset, Scorer,      *)
(* ScorerHead), region_grow, instance_iou, nll_loss and                    *)
(* binary_cross_entropy are not part of this file: what they return in a   *)
(* pass is chosen by the environment from the sets of an environment       *)
(* record env (clusters_pos and clusters_votes: the results of the first   *)
(* and of the second call of region_grow).                                 *)
(***************************************************************************)
EXTENDS Integers, Sequences, FiniteSets

VARIABLES
    opt,               \* self.opt: prepare_epoch, thresholds, loss_weights
    training,          \* the module's train/eval flag (never read by forward)
    input,             \* self.input / self.all_labels after set_input, or None
    epoch,             \* the epoch argument of the last forward, or None
    all_outputs,       \* self.all_outputs of the last forward, or None
    batch_cluster,     \* the cluster batch handed to the Scorer in the last pass, or None
    calls,             \* how often the last pass called each external routine
    ext,               \* the last pass: its input, its mode, what the external routines returned
    target,            \* ious, the three masks and shat of the last pass, or None
    loss,              \* self.loss
    semantic_loss,     \* self.semantic_loss
    offset_norm_loss,  \* self.offset_norm_loss
    offset_dir_loss,   \* self.offset_dir_loss
    score_loss         \* self.score_loss

vars == << opt, training, input, epoch, all_outputs, batch_cluster, calls, ext,
           target, loss, semantic_loss, offset_norm_loss, offset_dir_loss,
           score_loss >>

-----------------------------------------------------------------------------
(* Bounds of the model *)

NumPoints == 2
MaxClusters == 2
MaxEpoch == 2
IouDen == 4
MaxScale == 3

(* 1 / 1e-6, the guard of the two divisions of _offset_loss *)
EpsInv == 1000000

-----------------------------------------------------------------------------
(* Optional values *)

None == <<>>
Some(v) == <<v>>
IsNone(o) == o = <<>>
Val(o) == o[1]

-----------------------------------------------------------------------------
(* Exact rationals *)

Abs(i) == IF i < 0 THEN -i ELSE i

RECURSIVE GCD(_, _)
GCD(a, b) == IF b = 0 THEN a ELSE GCD(b, a % b)

R(n, d) ==
    LET s == IF d < 0 THEN -1 ELSE 1
        g == GCD(Abs(n), Abs(d))
    IN  [n |-> (s * n) \div g, d |-> (s * d) \div g]

Zero == R(0, 1)
One == R(1, 1)
RInt(i) == R(i, 1)
RAdd(a, b) == R(a.n * b.d + b.n * a.d, a.d * b.d)
RSub(a, b) == R(a.n * b.d - b.n * a.d, a.d * b.d)
RMul(a, b) == R(a.n * b.n, a.d * b.d)
RDiv(a, b) == R(a.n * b.d, a.d * b.n)
RNeg(a) == [n |-> -a.n, d |-> a.d]
RLt(a, b) == a.n * b.d < b.n * a.d
RLe(a, b) == a.n * b.d <= b.n * a.d

RECURSIVE RSum(_)
RSum(s) == IF s = <<>> THEN Zero ELSE RAdd(Head(s), RSum(Tail(s)))

-----------------------------------------------------------------------------
(* 3-vectors with integer coordinates *)

Dot(u, v) == u[1] * v[1] + u[2] * v[2] + u[3] * v[3]
L1(u) == Abs(u[1]) + Abs(u[2]) + Abs(u[3])
VSub(u, v) == << u[1] - v[1], u[2] - v[2], u[3] - v[3] >>
ISqrt(n) == CHOOSE r \in 0..n : r * r = n
(* torch.norm(v, p=2): the vectors of the model have an integer length *)
Norm2(u) == ISqrt(Dot(u, u))

Points == 1..NumPoints

-----------------------------------------------------------------------------
(* _offset_loss *)

(* the indices selected by a boolean mask, in index order: t[mask] *)
RECURSIVE Select(_, _)
Select(mask, n) ==
    IF n = 0 THEN <<>>
    ELSE IF mask[n] THEN Append(Select(mask, n - 1), n) ELSE Select(mask, n - 1)

(* x / (count + 1e-6) *)
EpsDiv(x, count) ==
    IF count = 0 THEN RMul(x, RInt(EpsInv)) ELSE RDiv(x, RInt(count))

(* -(gt / (|gt| + 1e-8) * pt / (|pt| + 1e-8)).sum(-1) for one point *)
DirectionDiff(gt, pt) ==
    IF Norm2(gt) = 0 \/ Norm2(pt) = 0 THEN Zero
    ELSE RNeg(R(Dot(gt, pt), Norm2(gt) * Norm2(pt)))

AllPointsMask(instance_mask) == [p \in Points |-> TRUE]

(* instance_mask as used to index offset_logits and vote_label *)
OffsetMask(instance_mask) == instance_mask

_offset_loss(data_labels, result) ==
    LET instance_mask == OffsetMask(data_labels.instance_mask)
        sel == Select(instance_mask, NumPoints)
        pt_offsets == [k \in 1..Len(sel) |-> result.offset_logits[sel[k]]]
        gt_offsets == [k \in 1..Len(sel) |-> data_labels.vote_label[sel[k]]]
        pt_dist == [k \in 1..Len(sel) |-> RInt(L1(VSub(pt_offsets[k], gt_offsets[k])))]
        count == Len(Select(data_labels.instance_mask, NumPoints))
        direction_diff == [k \in 1..Len(sel) |-> DirectionDiff(gt_offsets[k], pt_offsets[k])]
    IN  [offset_norm_loss |-> EpsDiv(RSum(pt_dist), count),
         offset_dir_loss |-> EpsDiv(RSum(direction_diff), count)]

-----------------------------------------------------------------------------
(* The score target of _compute_loss *)

LowerMask(ious, o) == [i \in 1..Len(ious) |-> RLt(ious[i], o.min_iou_threshold)]

HigherMask(ious, o) == [i \in 1..Len(ious) |-> RLt(o.max_iou_threshold, ious[i])]

NotLowerMask(lower_mask, higher_mask) ==
    [i \in 1..Len(lower_mask) |-> ~lower_mask[i]]

(* torch.logical_and(torch.logical_not(lower_mask), torch.logical_not(higher_mask)) *)
MiddleMask(lower_mask, higher_mask) ==
    [i \in 1..Len(lower_mask) |-> ~lower_mask[i] /\ ~higher_mask[i]]

(* torch.sum(lower_mask + higher_mask + middle_mask) == ious.shape[0]: the sum *)
(* of boolean tensors is their elementwise or, torch.sum counts its True     *)
PartitionAssert(lower_mask, higher_mask, middle_mask) ==
    Cardinality({i \in 1..Len(lower_mask) :
                    lower_mask[i] \/ higher_mask[i] \/ middle_mask[i]})
        = Len(lower_mask)

MiddleValueNoShift(iou, o) == RDiv(iou, RSub(o.max_iou_threshold, o.min_iou_threshold))

(* (iou_middle - min_iou_threshold) / (max_iou_threshold - min_iou_threshold) *)
MiddleValue(iou, o) ==
    RDiv(RSub(iou, o.min_iou_threshold),
         RSub(o.max_iou_threshold, o.min_iou_threshold))

(* shat = zeros_like(ious); shat[higher_mask] = 1; shat[middle_mask] = ... *)
Shat(ious, higher_mask, middle_mask, o) ==
    [i \in 1..Len(ious) |->
        IF middle_mask[i] THEN MiddleValue(ious[i], o)
        ELSE IF higher_mask[i] THEN One
        ELSE Zero]

ScoreTarget(ious, o) ==
    LET lower_mask == LowerMask(ious, o)
        higher_mask == HigherMask(ious, o)
        middle_mask == MiddleMask(lower_mask, higher_mask)
    IN  [ious |-> ious,
         lower_mask |-> lower_mask,
         higher_mask |-> higher_mask,
         middle_mask |-> middle_mask,
         assert_ok |-> PartitionAssert(lower_mask, higher_mask, middle_mask),
         shat |-> Shat(ious, higher_mask, middle_mask, o)]

-----------------------------------------------------------------------------
(* _compute_loss.  self: the loss attributes before the call; labels:       *)
(* self.all_labels; outputs: self.all_outputs; x: what nll_loss,            *)
(* instance_iou(...).max(1)[0] and binary_cross_entropy return.  The result *)
(* is the attributes after the call; raised tells a failed assertion or a   *)
(* binary_cross_entropy of tensors of different sizes, which leave the      *)
(* attributes assigned so far.                                              *)

(* self.all_outputs.cluster_scores is not None *)
Scored(outputs) == ~IsNone(outputs.cluster_scores)

AccumulatedStartLoss(self, o, nll) ==
    RAdd(IF IsNone(self.loss) THEN Zero ELSE Val(self.loss),
         RMul(RInt(o.loss_weights.semantic), nll))

(* self.loss = self.opt.loss_weights.semantic * self.semantic_loss *)
StartLoss(self, o, nll) == RMul(RInt(o.loss_weights.semantic), nll)

_compute_loss(self, o, labels, outputs, x) ==
    LET loss0 == StartLoss(self, o, x.nll)
        offset_losses == _offset_loss(labels, outputs)
        scored == Scored(outputs)
        tg == IF scored THEN Some(ScoreTarget(Val(x.ious), o)) ELSE None
        raised == scored /\ (~Val(tg).assert_ok
                              \/ Len(Val(outputs.cluster_scores)) # Len(Val(x.ious)))
        loss1 == IF scored
                 THEN RAdd(loss0, RMul(Val(x.bce), RInt(o.loss_weights.score_loss)))
                 ELSE loss0
        loss2 == RAdd(loss1, RMul(RInt(o.loss_weights.offset_norm_loss),
                                  offset_losses.offset_norm_loss))
        loss3 == RAdd(loss2, RMul(RInt(o.loss_weights.offset_dir_loss),
                                  offset_losses.offset_dir_loss))
    IN  IF raised
        THEN [self EXCEPT !.semantic_loss = Some(x.nll), !.loss = Some(loss0),
                          !.target = tg, !.raised = TRUE, !.iou_calls = 1]
        ELSE [semantic_loss |-> Some(x.nll),
              loss |-> Some(loss3),
              offset_norm_loss |-> Some(offset_losses.offset_norm_loss),
              offset_dir_loss |-> Some(offset_losses.offset_dir_loss),
              score_loss |-> IF scored THEN Some(Val(x.bce)) ELSE self.score_loss,
              target |-> tg,
              raised |-> FALSE,
              iou_calls |-> IF scored THEN 1 ELSE 0]

(* the loss attributes of the model as _compute_loss finds them *)
Self ==
    [semantic_loss |-> semantic_loss, loss |-> loss,
     offset_norm_loss |-> offset_norm_loss, offset_dir_loss |-> offset_dir_loss,
     score_loss |-> score_loss, target |-> target, raised |-> FALSE,
     iou_calls |-> 0]

-----------------------------------------------------------------------------
(* forward: grouping and scoring *)

ActiveByEpochOnly(e, o) == e > o.prepare_epoch

ActiveFromPrepareEpoch(e, o) == e = -1 \/ e >= o.prepare_epoch

(* epoch == -1 or epoch > self.opt.prepare_epoch *)
Active(e, o) == e = -1 \/ e > o.prepare_epoch

RECURSIVE Dedup(_)
Dedup(s) ==
    IF s = <<>> THEN <<>>
    ELSE LET r == Dedup(SubSeq(s, 1, Len(s) - 1))
             l == s[Len(s)]
         IN  IF \E k \in 1..Len(r) : r[k] = l THEN r ELSE Append(r, l)

Deduplicated(clusters_pos, clusters_votes) == Dedup(clusters_pos \o clusters_votes)

(* clusters_pos + clusters_votes *)
AllClusters(clusters_pos, clusters_votes) == clusters_pos \o clusters_votes

NoLengthTest(all_clusters) == TRUE

(* if len(all_clusters) *)
HasClusters(all_clusters) == Len(all_clusters) > 0

(* t[cluster]: the rows of t at the indices of cluster, in its order *)
Gather(t, cluster) == [k \in 1..Len(cluster) |-> t[cluster[k]]]

OriginalBatch(i, cluster, data) == Gather(data.batch, cluster)

(* i * torch.ones(cluster.shape[0]) *)
BatchStamp(i, cluster, data) == [k \in 1..Len(cluster) |-> i]

(* the loop over enumerate(all_clusters) and the three torch.cat; cluster *)
(* number i of the code (from 0) is the entry i + 1 of the sequence       *)
RECURSIVE ClusterBatch(_, _, _)
ClusterBatch(all_clusters, features, data) ==
    IF all_clusters = <<>> THEN [x |-> <<>>, pos |-> <<>>, batch |-> <<>>]
    ELSE LET n == Len(all_clusters)
             rest == ClusterBatch(SubSeq(all_clusters, 1, n - 1), features, data)
             cluster == all_clusters[n]
         IN  [x |-> rest.x \o Gather(features, cluster),
              pos |-> rest.pos \o Gather(data.pos, cluster),
              batch |-> rest.batch \o BatchStamp(n - 1, cluster, data)]

(* Scorer(batch_cluster).x has one row per batch id of the cluster batch, *)
(* in increasing order of the id; ScorerHead maps each row to one score   *)
ScorerRows(bc) == Cardinality({bc.batch[k] : k \in 1..Len(bc.batch)})

-----------------------------------------------------------------------------
(* Operations *)

(* set_input: self.input and self.all_labels *)
set_input(data) ==
    /\ input' = Some(data)
    /\ UNCHANGED << opt, training, epoch, all_outputs, batch_cluster, calls, ext,
                    target, loss, semantic_loss, offset_norm_loss,
                    offset_dir_loss, score_loss >>

(* train() / eval() of the module *)
SetTraining(mode) ==
    /\ training' = mode
    /\ UNCHANGED << opt, input, epoch, all_outputs, batch_cluster, calls, ext,
                    target, loss, semantic_loss, offset_norm_loss,
                    offset_dir_loss, score_loss >>

(* the end of forward: self.all_outputs, then self._compute_loss() *)
Pass(e, feats, off, nll, rg, clusters, bc, scores, ious, bce) ==
    (* rg: what the calls of region_grow returned, in call order *)
    LET outputs == [offset_logits |-> off, clusters |-> clusters,
                    cluster_scores |-> scores]
        x == [nll |-> nll, ious |-> ious, bce |-> bce]
    IN  \E r \in {_compute_loss(Self, opt, Val(input), outputs, x)} :
        /\ epoch' = Some(e)
        /\ all_outputs' = Some(outputs)
        /\ batch_cluster' = bc
        /\ calls' = [region_grow |-> Len(rg),
                     scorer |-> IF IsNone(scores) THEN 0 ELSE 1,
                     instance_iou |-> r.iou_calls]
        /\ ext' = Some([data |-> Val(input), training |-> training,
                        features |-> feats, region_grow |-> rg, nll |-> nll,
                        ious |-> ious, bce |-> bce, raised |-> r.raised])
        /\ target' = r.target
        /\ loss' = r.loss
        /\ semantic_loss' = r.semantic_loss
        /\ offset_norm_loss' = r.offset_norm_loss
        /\ offset_dir_loss' = r.offset_dir_loss
        /\ score_loss' = r.score_loss
        /\ UNCHANGED << opt, training, input >>

forward(e, env) ==
    /\ ~IsNone(input)
    /\ \E feats \in env.backbone, off \in env.offset_logits, nll \in env.nll :
          IF Active(e, opt)
          THEN \E clusters_pos \in env.clusters_pos, clusters_votes \in env.clusters_votes :
                  LET all_clusters == AllClusters(clusters_pos, clusters_votes)
                      rg == << clusters_pos, clusters_votes >>
                  IN  IF HasClusters(all_clusters)
                      THEN LET bc == ClusterBatch(all_clusters, feats, Val(input))
                           IN  \E scores \in [1..ScorerRows(bc) -> env.scores],
                                  ious \in [1..Len(all_clusters) -> env.ious],
                                  bce \in env.bce :
                                  Pass(e, feats, off, nll, rg, Some(all_clusters),
                                       Some(bc), Some(scores), Some(ious), Some(bce))
                      ELSE Pass(e, feats, off, nll, rg, Some(all_clusters),
                                None, None, None, None)
          ELSE Pass(e, feats, off, nll, <<>>, None, None, None, None, None)

(* the model after __init__, with the configuration o *)
InitWith(o) ==
    /\ opt = o
    /\ training = TRUE
    /\ input = None
    /\ epoch = None
    /\ all_outputs = None
    /\ batch_cluster = None
    /\ calls = [region_grow |-> 0, scorer |-> 0, instance_iou |-> 0]
    /\ ext = None
    /\ target = None
    /\ loss = None
    /\ semantic_loss = None
    /\ offset_norm_loss = None
    /\ offset_dir_loss = None
    /\ score_loss = None

-----------------------------------------------------------------------------
(* Inputs and configurations *)

Features == [p \in Points |-> 10 * p]
PosOf == [p \in Points |-> << p, 0, 0 >>]
BatchIds == [p \in Points |-> p % 2]
Data(mask, vote) ==
    [pos |-> PosOf, batch |-> BatchIds, instance_mask |-> mask, vote_label |-> vote]

(* the same points, all of one cloud and at other positions *)
OneCloud(d) ==
    [d EXCEPT !.pos = [p \in Points |-> << 0, p, 1 >>],
              !.batch = [p \in Points |-> 0]]

Opt(pe, mn, mx, w) ==
    [prepare_epoch |-> pe, min_iou_threshold |-> mn, max_iou_threshold |-> mx,
     loss_weights |-> w]

LossNames == {"semantic", "offset_norm_loss", "offset_dir_loss", "score_loss"}
UnitWeights == [name \in LossNames |-> 1]
MixedWeights ==
    [semantic |-> 2, offset_norm_loss |-> 3, offset_dir_loss |-> 5, score_loss |-> 7]
NoScoreWeights ==
    [semantic |-> 1, offset_norm_loss |-> 2, offset_dir_loss |-> 0, score_loss |-> 0]

FirstOnly == [p \in Points |-> p = 1]
NoPoint == [p \in Points |-> FALSE]
VoteA == [p \in Points |-> IF p = 1 THEN << 3, 4, 0 >> ELSE << 0, 0, 0 >>]
OffA == [p \in Points |-> IF p = 1 THEN << 1, 0, 0 >> ELSE << 0, -2, 0 >>]
OffB == [p \in Points |-> << 3, 4, 0 >>]
OffC == [p \in Points |-> IF p = 1 THEN << 0, 0, 0 >> ELSE << 3, 4, 0 >>]
VoteB == [p \in Points |-> IF p = 1 THEN << 0, -2, 0 >> ELSE << 3, 4, 0 >>]

(* sequences over S of length at most n *)
RECURSIVE SeqsUpTo(_, _)
SeqsUpTo(S, n) ==
    IF n = 0 THEN {<<>>}
    ELSE LET shorter == SeqsUpTo(S, n - 1)
         IN  shorter \cup {Append(q, c) : q \in shorter, c \in S}

SomeClusters == {<< 1, 2 >>, << 2 >>, << 2, 1 >>}
Grid == {R(k, IouDen) : k \in 0..IouDen}

(* the gate: epochs around prepare_epoch, in both modes *)
EnvGate ==
    [opt |-> {Opt(pe, R(1, 4), R(3, 4), UnitWeights) : pe \in -1..(MaxEpoch - 1)},
     data |-> {Data(FirstOnly, VoteA)},
     epochs |-> -1..MaxEpoch,
     backbone |-> {Features},
     offset_logits |-> {OffA},
     nll |-> {R(1, 2)},
     clusters_pos |-> {<<>>, << << 1, 2 >> >>},
     clusters_votes |-> {<<>>, << << 1, 2 >> >>},
     scores |-> {R(1, 2)},
     ious |-> {R(1, 2)},
     bce |-> {R(1, 3), R(2, 3)}]

(* the cluster list and the cluster batch *)
EnvCluster ==
    [opt |-> {Opt(0, R(1, 4), R(3, 4), UnitWeights)},
     data |-> {Data(FirstOnly, VoteA), OneCloud(Data(FirstOnly, VoteA))},
     epochs |-> {-1},
     backbone |-> {Features},
     offset_logits |-> {OffA},
     nll |-> {R(1, 2)},
     clusters_pos |-> SeqsUpTo(SomeClusters, MaxClusters),
     clusters_votes |-> SeqsUpTo({<< 1, 2 >>, << 2 >>}, 1),
     scores |-> {R(1, 2)},
     ious |-> {R(1, 2)},
     bce |-> {R(1, 3)}]

(* the score target: thresholds and IoU values on the grid k / IouDen *)
EnvScore ==
    [opt |-> {Opt(0, mn, mx, UnitWeights) :
                 << mn, mx >> \in {t \in Grid \X Grid : RLt(t[1], t[2])}},
     data |-> {Data(FirstOnly, VoteA)},
     epochs |-> {-1},
     backbone |-> {Features},
     offset_logits |-> {OffA},
     nll |-> {R(1, 2)},
     clusters_pos |-> {<< << 1 >> >>},
     clusters_votes |-> {<<>>, << << 1, 2 >>, << 2 >> >>},
     scores |-> {R(1, 2)},
     ious |-> Grid,
     bce |-> {R(1, 3)}]

(* the loss: weights and sub-losses *)
EnvLoss ==
    [opt |-> {Opt(0, R(1, 4), R(3, 4), w) :
                 w \in {UnitWeights, MixedWeights, NoScoreWeights}},
     data |-> {Data(FirstOnly, VoteA), Data(NoPoint, VoteA)},
     epochs |-> {-1, 0},
     backbone |-> {Features},
     offset_logits |-> {OffA, OffB},
     nll |-> {R(1, 2), R(2, 1)},
     clusters_pos |-> {<<>>, << << 1, 2 >> >>},
     clusters_votes |-> {<<>>, << << 1, 2 >> >>},
     scores |-> {R(1, 2)},
     ious |-> {R(1, 2)},
     bce |-> {R(1, 3), R(5, 2)}]

(* the offset losses: every mask over two vote targets and three offsets *)
VoteVectors == {<< 0, 0, 0 >>, << 3, 4, 0 >>, << 0, -2, 0 >>}
OffsetVectors == {<< 0, 0, 0 >>, << 3, 4, 0 >>, << 1, 0, 0 >>}
EnvOffset ==
    [opt |-> {Opt(0, R(1, 4), R(3, 4), UnitWeights)},
     data |-> {Data(mask, vote) : mask \in [Points -> BOOLEAN], vote \in {VoteA, VoteB}},
     epochs |-> {0},
     backbone |-> {Features},
     offset_logits |-> {OffA, OffB, OffC},
     nll |-> {R(1, 2)},
     clusters_pos |-> {<<>>},
     clusters_votes |-> {<<>>},
     scores |-> {R(1, 2)},
     ious |-> {R(1, 2)},
     bce |-> {R(1, 3)}]

-----------------------------------------------------------------------------
(* Specifications: the same operations in each, driven by one environment *)

Init == \E o \in EnvGate.opt : InitWith(o)
Next ==
    \/ \E d \in EnvGate.data : set_input(d)
    \/ \E mode \in BOOLEAN : SetTraining(mode)
    \/ \E e \in EnvGate.epochs : forward(e, EnvGate)
Spec == Init /\ [][Next]_vars

InitCluster == \E o \in EnvCluster.opt : InitWith(o)
NextCluster ==
    \/ \E d \in EnvCluster.data : set_input(d)
    \/ \E e \in EnvCluster.epochs : forward(e, EnvCluster)
SpecCluster == InitCluster /\ [][NextCluster]_vars

InitScore == \E o \in EnvScore.opt : InitWith(o)
NextScore ==
    \/ \E d \in EnvScore.data : set_input(d)
    \/ \E e \in EnvScore.epochs : forward(e, EnvScore)
SpecScore == InitScore /\ [][NextScore]_vars

InitLoss == \E o \in EnvLoss.opt : InitWith(o)
NextLoss ==
    \/ \E d \in EnvLoss.data : set_input(d)
    \/ \E e \in EnvLoss.epochs : forward(e, EnvLoss)
SpecLoss == InitLoss /\ [][NextLoss]_vars

InitOffset == \E o \in EnvOffset.opt : InitWith(o)
NextOffset ==
    \/ \E d \in EnvOffset.data : set_input(d)
    \/ \E e \in EnvOffset.epochs : forward(e, EnvOffset)
SpecOffset == InitOffset /\ [][NextOffset]_vars

-----------------------------------------------------------------------------
(* Properties *)

PassDone == ~IsNone(ext)
LastPass == Val(ext)
Outputs == Val(all_outputs)
Weights == opt.loss_weights
CountTrue(mask) == Cardinality({i \in DOMAIN mask : mask[i]})

(* the weighted semantic and offset terms of the losses the model exposes *)
ThreeTerms ==
    RAdd(RMul(RInt(Weights.semantic), Val(semantic_loss)),
         RAdd(RMul(RInt(Weights.offset_norm_loss), Val(offset_norm_loss)),
              RMul(RInt(Weights.offset_dir_loss), Val(offset_dir_loss))))

(* C1: in every pass that scores clusters, each cluster is in exactly one of *)
(* the buckets lower (IoU < min), higher (IoU > max) and middle (neither),   *)
(* the three bucket counts sum to the number of clusters, and the assertion  *)
(* on the partition does not fail.                                           *)
C1_BucketsPartition ==
    ~IsNone(target) =>
        LET t == Val(target)
            n == Len(t.ious)
        IN  /\ t.assert_ok
            /\ ~LastPass.raised
            /\ n = Len(Val(Outputs.clusters))
            /\ \A i \in 1..n :
                  /\ t.lower_mask[i] <=> RLt(t.ious[i], opt.min_iou_threshold)
                  /\ t.higher_mask[i] <=> RLt(opt.max_iou_threshold, t.ious[i])
                  /\ t.middle_mask[i] <=> (~t.lower_mask[i] /\ ~t.higher_mask[i])
                  /\ Cardinality({b \in {"lower", "higher", "middle"} :
                        \/ b = "lower" /\ t.lower_mask[i]
                        \/ b = "higher" /\ t.higher_mask[i]
                        \/ b = "middle" /\ t.middle_mask[i]}) = 1
            /\ CountTrue(t.lower_mask) + CountTrue(t.higher_mask)
                  + CountTrue(t.middle_mask) = n

(* three clusters, one in each bucket, the middle one exactly on min *)
C1_Witness ==
    /\ ~IsNone(target)
    /\ Len(Val(target).ious) = 3
    /\ Val(target).lower_mask[1]
    /\ Val(target).middle_mask[2]
    /\ Val(target).ious[2] = opt.min_iou_threshold
    /\ Val(target).higher_mask[3]

(* C2: shat is the piecewise-linear map of the IoU (0 below min, 1 above    *)
(* max, (IoU - min) / (max - min) between), lies in [0, 1], is 0 at min, 1  *)
(* at max and non-decreasing in the IoU; min 1/4, max 3/4, IoU 1/2 gives    *)
(* 1/2.                                                                      *)
C2_SoftTarget ==
    ~IsNone(target) =>
        LET t == Val(target)
            mn == opt.min_iou_threshold
            mx == opt.max_iou_threshold
        IN  \A i \in 1..Len(t.ious) :
               /\ t.shat[i] = IF RLt(t.ious[i], mn) THEN Zero
                              ELSE IF RLt(mx, t.ious[i]) THEN One
                              ELSE RDiv(RSub(t.ious[i], mn), RSub(mx, mn))
               /\ RLe(Zero, t.shat[i]) /\ RLe(t.shat[i], One)
               /\ t.ious[i] = mn => t.shat[i] = Zero
               /\ t.ious[i] = mx => t.shat[i] = One
               /\ (mn = R(1, 4) /\ mx = R(3, 4) /\ t.ious[i] = R(1, 2))
                     => t.shat[i] = R(1, 2)
               /\ \A j \in 1..Len(t.ious) :
                     RLe(t.ious[i], t.ious[j]) => RLe(t.shat[i], t.shat[j])

(* min 1/4, max 3/4 and clusters of IoU 1/4, 1/2 and 3/4 with targets 0, 1/2, 1 *)
C2_Witness ==
    /\ ~IsNone(target)
    /\ opt.min_iou_threshold = R(1, 4)
    /\ opt.max_iou_threshold = R(3, 4)
    /\ Val(target).ious = << R(1, 4), R(1, 2), R(3, 4) >>
    /\ Val(target).shat = << Zero, R(1, 2), One >>

C4_EvalAlwaysActive ==
    (PassDone /\ ~LastPass.training) =>
        /\ calls.region_grow = 2
        /\ ~IsNone(Outputs.clusters)

(* C4 amended: in either mode a pass clusters exactly when its epoch is the  *)
(* default -1 or above prepare_epoch; with the default epoch it runs both    *)
(* region-growing calls and produces the cluster list for every             *)
(* prepare_epoch.                                                            *)
C4_DefaultEpochActive ==
    PassDone =>
        IF Val(epoch) = -1 \/ Val(epoch) > opt.prepare_epoch
        THEN calls.region_grow = 2 /\ ~IsNone(Outputs.clusters)
        ELSE calls.region_grow = 0 /\ IsNone(Outputs.clusters)

(* an evaluation pass with the default epoch, below prepare_epoch, that clustered *)
C4_Witness ==
    /\ PassDone
    /\ ~LastPass.training
    /\ Val(epoch) = -1
    /\ Val(epoch) < opt.prepare_epoch
    /\ calls.region_grow = 2
    /\ ~IsNone(Outputs.clusters)

(* C5: the cluster list of an active pass is the result A of the first      *)
(* region-growing call followed by the result B of the second: |A| + |B|    *)
(* entries, A in order, then B in order, nothing removed.                    *)
C5_Concatenation ==
    (PassDone /\ calls.region_grow = 2) =>
        LET A == LastPass.region_grow[1]
            B == LastPass.region_grow[2]
            all == Val(Outputs.clusters)
        IN  /\ ~IsNone(Outputs.clusters)
            /\ Len(all) = Len(A) + Len(B)
            /\ Len(all) >= Len(A) /\ Len(all) >= Len(B)
            /\ \A i \in 1..Len(A) : all[i] = A[i]
            /\ \A j \in 1..Len(B) : all[Len(A) + j] = B[j]

(* both calls found the same point set, and it is twice in the list *)
C5_Witness ==
    /\ PassDone
    /\ calls.region_grow = 2
    /\ Len(LastPass.region_grow[1]) = 2
    /\ LastPass.region_grow[2] = << LastPass.region_grow[1][1] >>
    /\ Len(Val(Outputs.clusters)) = 3
    /\ Val(Outputs.clusters)[3] = Val(Outputs.clusters)[1]

(* C6: an active pass whose two region-growing calls return no cluster      *)
(* completes without invoking the scorer or instance_iou, has no cluster    *)
(* scores and no score target, and its total loss is the semantic and the   *)
(* two offset terms.                                                         *)
C6_EmptyClusterList ==
    (PassDone /\ LastPass.region_grow = << <<>>, <<>> >>) =>
        /\ ~LastPass.raised
        /\ Outputs.clusters = Some(<<>>)
        /\ IsNone(batch_cluster)
        /\ calls.scorer = 0
        /\ IsNone(Outputs.cluster_scores)
        /\ calls.instance_iou = 0
        /\ IsNone(target)
        /\ loss = Some(ThreeTerms)

(* an active pass (epoch above prepare_epoch) with two empty results *)
C6_Witness ==
    /\ PassDone
    /\ Val(epoch) > opt.prepare_epoch
    /\ LastPass.region_grow = << <<>>, <<>> >>
    /\ Outputs.clusters = Some(<<>>)
    /\ loss = Some(ThreeTerms)

(* C7 as stated: after a pass that produced no cluster scores the score     *)
(* loss of the model is absent.                                              *)
C7_ScoreLossAbsent ==
    (PassDone /\ IsNone(Outputs.cluster_scores)) => IsNone(score_loss)

(* the sub-loss a weight multiplies in the last pass *)
SubLoss(name) ==
    CASE name = "semantic" -> Val(semantic_loss)
      [] name = "offset_norm_loss" -> Val(offset_norm_loss)
      [] name = "offset_dir_loss" -> Val(offset_dir_loss)
      [] name = "score_loss" ->
            IF IsNone(Outputs.cluster_scores) THEN Zero ELSE Val(score_loss)

Contribution(w, name) == RMul(RInt(w[name]), SubLoss(name))

(* the total loss of the last pass, had the weights been w *)
TotalWith(w) ==
    Val(_compute_loss(Self, [opt EXCEPT !.loss_weights = w], LastPass.data, Outputs,
                      [nll |-> LastPass.nll, ious |-> LastPass.ious,
                       bce |-> LastPass.bce]).loss)

(* C8: after every pass the total loss is the weighted sum of the semantic  *)
(* and offset losses of this pass, plus the weighted score loss exactly     *)
(* when cluster scores exist; scaling one weight by k scales that           *)
(* contribution by k and leaves the rest of the total unchanged.             *)
C8_WeightedSum ==
    PassDone =>
        /\ semantic_loss = Some(LastPass.nll)
        /\ ~IsNone(Outputs.cluster_scores) => score_loss = LastPass.bce
        /\ loss = Some(RAdd(ThreeTerms, Contribution(Weights, "score_loss")))
        /\ \A name \in LossNames, k \in 1..MaxScale :
              LET w == [Weights EXCEPT ![name] = k * Weights[name]]
              IN  /\ Contribution(w, name) = RMul(RInt(k), Contribution(Weights, name))
                  /\ RSub(TotalWith(w), Contribution(w, name))
                        = RSub(Val(loss), Contribution(Weights, name))
                  /\ \A other \in LossNames \ {name} :
                        Contribution(w, other) = Contribution(Weights, other)

(* a pass without cluster scores after a pass that had a score loss, under *)
(* unequal weights                                                          *)
C8_Witness ==
    /\ PassDone
    /\ Weights = MixedWeights
    /\ IsNone(Outputs.cluster_scores)
    /\ ~IsNone(score_loss)
    /\ loss = Some(ThreeTerms)
    /\ RLt(Zero, Val(loss))

(* the labels and offsets of the last pass with point p given the vote      *)
(* target v and the predicted offset u                                      *)
LabelsWith(p, v) ==
    [LastPass.data EXCEPT !.vote_label = [@ EXCEPT ![p] = v]]
OffsetsWith(p, u) ==
    [Outputs EXCEPT !.offset_logits = [@ EXCEPT ![p] = u]]

RECURSIVE SumOver(_, _, _)
SumOver(f(_), mask, n) ==
    IF n = 0 THEN Zero
    ELSE RAdd(IF mask[n] THEN f(n) ELSE Zero, SumOver(f, mask, n - 1))

(* C9: the offset losses are the sums over the masked points only, divided *)
(* by their number; another offset or vote target at an unmasked point     *)
(* leaves both unchanged; with no masked point both are 0.                  *)
C9_MaskedOnly ==
    PassDone =>
        LET d == LastPass.data
            mask == d.instance_mask
            count == CountTrue(mask)
            Dist(p) == RInt(L1(VSub(Outputs.offset_logits[p], d.vote_label[p])))
            Dir(p) == DirectionDiff(d.vote_label[p], Outputs.offset_logits[p])
            now == [offset_norm_loss |-> Val(offset_norm_loss),
                    offset_dir_loss |-> Val(offset_dir_loss)]
        IN  /\ count = 0 => now = [offset_norm_loss |-> Zero, offset_dir_loss |-> Zero]
            /\ count > 0 =>
                  /\ RMul(now.offset_norm_loss, RInt(count)) = SumOver(Dist, mask, NumPoints)
                  /\ RMul(now.offset_dir_loss, RInt(count)) = SumOver(Dir, mask, NumPoints)
            /\ \A p \in Points :
                  ~mask[p] =>
                      \A v \in VoteVectors, u \in OffsetVectors :
                          _offset_loss(LabelsWith(p, v), OffsetsWith(p, u)) = now

(* one point masked and one not, whose offset differs from its vote target *)
C9_Witness ==
    /\ PassDone
    /\ LastPass.data.instance_mask[1]
    /\ ~LastPass.data.instance_mask[2]
    /\ Outputs.offset_logits[2] # LastPass.data.vote_label[2]
    /\ RLt(Zero, Val(offset_norm_loss))

RECURSIVE SizeBefore(_, _)
SizeBefore(clusters, i) ==
    IF i = 1 THEN 0 ELSE SizeBefore(clusters, i - 1) + Len(clusters[i - 1])

(* C10: the cluster batch holds, cluster after cluster in list order, the  *)
(* feature and the position of each member in the cluster's order, stamped *)
(* with the number of the cluster (from 0); it has sum-of-cluster-sizes    *)
(* entries and the scorer returns one score per cluster.                    *)
C10_ClusterBatch ==
    (PassDone /\ ~IsNone(Outputs.clusters) /\ Len(Val(Outputs.clusters)) > 0) =>
        /\ ~IsNone(batch_cluster)
        /\ ~IsNone(Outputs.cluster_scores)
        /\ LET cl == Val(Outputs.clusters)
               bc == Val(batch_cluster)
               total == SizeBefore(cl, Len(cl) + 1)
           IN  /\ Len(bc.x) = total /\ Len(bc.pos) = total /\ Len(bc.batch) = total
               /\ \A i \in 1..Len(cl) : \A k \in 1..Len(cl[i]) :
                     LET row == SizeBefore(cl, i) + k
                     IN  /\ bc.x[row] = LastPass.features[cl[i][k]]
                         /\ bc.pos[row] = LastPass.data.pos[cl[i][k]]
                         /\ bc.batch[row] = i - 1
               /\ Len(Val(Outputs.cluster_scores)) = Len(cl)

(* point 2 is in the first cluster and alone in the second, where its stamp *)
(* 1 is not its own batch id 0                                              *)
C10_Witness ==
    /\ PassDone
    /\ ~IsNone(batch_cluster)
    /\ Val(Outputs.clusters) = << << 1, 2 >>, << 2 >> >>
    /\ LastPass.data.batch[2] = 0
    /\ Val(batch_cluster).batch = << 0, 0, 1 >>
    /\ Val(batch_cluster).x = << 10, 20, 20 >>
    /\ Len(Val(Outputs.cluster_scores)) = 2

====
